---- MODULE Spec2Model ----
(***************************************************************************)
(* Model of app/main.py: the GET /sheets handler (get_all_sheets) and the  *)
(* helpers it calls (fetch_sheet, sheet_to_df, parse_role, get_role_map).  *)
(*                                                                         *)
(* Text is a sequence of one-character strings, so that strip, lower and   *)
(* the regular expression of parse_role are computed, not assumed.         *)
(* A value that pandas can hold as missing (None, NaN, NaT) is the record  *)
(* Null; a text is Str(s), a number Num(n), a timestamp Ts(y, m, d).       *)
(* Numbers are fixed-point: Scale units make one.                          *)
(***************************************************************************)
EXTENDS Integers, Sequences, FiniteSets, TLC

\* ------------------------------------------------------------------ bounds
\* Sheets listed by the spreadsheet metadata of one request, at most.
MaxSheets == 2
\* Data rows (rows after the first) fetched in one request, all sheets
\* together, at most.
MaxRows == 2

\* ------------------------------------------------------------------ values
Null == [t |-> "null"]
Str(s) == [t |-> "str", s |-> s]
Num(n) == [t |-> "num", n |-> n]
Ts(y, m, d) == [t |-> "ts", y |-> y, m |-> m, d |-> d]

\* Fixed-point resolution of numbers: 1.0 is Scale units (three decimals,
\* the precision of round(overall_winrate, 3)).
Scale == 1000

\* ------------------------------------------------------------------ text
UpperLetters ==
  << "A","B","C","D","E","F","G","H","I","J","K","L","M",
     "N","O","P","Q","R","S","T","U","V","W","X","Y","Z" >>
LowerLetters ==
  << "a","b","c","d","e","f","g","h","i","j","k","l","m",
     "n","o","p","q","r","s","t","u","v","w","x","y","z" >>
Digits == << "0","1","2","3","4","5","6","7","8","9" >>

IsSpace(c) == c = " "
IsDigit(c) == \E i \in 1..Len(Digits) : Digits[i] = c
DigitVal(c) == (CHOOSE i \in 1..Len(Digits) : Digits[i] = c) - 1

\* str.lower() on one character.
LowerChar(c) ==
  IF \E i \in 1..Len(UpperLetters) : UpperLetters[i] = c
  THEN LowerLetters[CHOOSE i \in 1..Len(UpperLetters) : UpperLetters[i] = c]
  ELSE c

\* str.lower()
Lower(s) == [i \in 1..Len(s) |-> LowerChar(s[i])]

RECURSIVE LStrip(_)
LStrip(s) ==
  IF s = <<>> THEN s
  ELSE IF IsSpace(Head(s)) THEN LStrip(Tail(s)) ELSE s

RECURSIVE RStrip(_)
RStrip(s) ==
  IF s = <<>> THEN s
  ELSE IF IsSpace(s[Len(s)]) THEN RStrip(SubSeq(s, 1, Len(s) - 1)) ELSE s

\* str.strip()
Strip(s) == RStrip(LStrip(s))

\* --------------------------------------------------------------- parse_role
\* The part of the pattern after group 1:  (?:\s*\((.*?)\))?$
\* Either nothing is left, or optional blanks, "(", any text, ")" and the
\* end of the string.
RoleTailMatches(r) ==
  \/ r = <<>>
  \/ LET q == LStrip(r)
     IN  Len(q) >= 2 /\ q[1] = "(" /\ q[Len(q)] = ")"

\* The ends of group 1, ([^(]+?): one or more characters other than "(",
\* followed by a tail that matches.
RoleGroupEnds(s) ==
  { i \in 1..Len(s) :
      /\ \A k \in 1..i : s[k] # "("
      /\ RoleTailMatches(SubSeq(s, i + 1, Len(s))) }

\* group(2) of the match whose group 1 ends at i: None when the optional
\* parenthetical did not take part, else the text between "(" and the last ")".
RoleNoteAt(s, i) ==
  LET q == LStrip(SubSeq(s, i + 1, Len(s)))
  IN  IF q = <<>> THEN Null ELSE Str(SubSeq(q, 2, Len(q) - 1))

\* parse_role(role_raw): the pair (role, note).
parse_role(role_raw) ==
  IF role_raw.t # "str" THEN << Null, Null >>
  ELSE LET s == Strip(role_raw.s)
           ends == RoleGroupEnds(s)
       IN  IF ends = {} THEN << Str(s), Null >>
           ELSE LET i == CHOOSE e \in ends : \A f \in ends : e <= f
                IN  << Str(Strip(SubSeq(s, 1, i))), RoleNoteAt(s, i) >>

\* ------------------------------------------------------------ pd.to_numeric
RECURSIVE DigitsValue(_)
DigitsValue(s) ==
  IF s = <<>> THEN 0
  ELSE 10 * DigitsValue(SubSeq(s, 1, Len(s) - 1)) + DigitVal(s[Len(s)])

AllDigits(s) == \A i \in 1..Len(s) : IsDigit(s[i])

\* The fraction digits of a decimal text as Scale-ths: the first three
\* digits, right-padded with zeros (the win texts of the model carry at most
\* three decimals).
FractionValue(s) ==
  LET d(i) == IF i <= Len(s) THEN DigitVal(s[i]) ELSE 0
  IN  100 * d(1) + 10 * d(2) + d(3)

\* pd.to_numeric(..., errors="coerce") on one cell: an unsigned decimal text
\* gives its number, a missing cell or any other text of the model's alphabet
\* gives NaN.
to_numeric(cell) ==
  IF cell.t # "str" THEN Null
  ELSE LET s == cell.s
           dots == { i \in 1..Len(s) : s[i] = "." }
       IN  IF dots = {}
           THEN IF s # <<>> /\ AllDigits(s) THEN Num(Scale * DigitsValue(s)) ELSE Null
           ELSE IF Cardinality(dots) > 1 THEN Null
           ELSE LET p == CHOOSE i \in dots : TRUE
                    ip == SubSeq(s, 1, p - 1)
                    fp == SubSeq(s, p + 1, Len(s))
                IN  IF AllDigits(ip) /\ AllDigits(fp) /\ Len(ip) + Len(fp) > 0
                    THEN Num(Scale * DigitsValue(ip) + FractionValue(fp))
                    ELSE Null

\* ----------------------------------------------------------- pd.to_datetime
IsLeap(y) == (y % 4 = 0 /\ y % 100 # 0) \/ y % 400 = 0
DaysInMonth(y, m) ==
  IF m = 2 THEN (IF IsLeap(y) THEN 29 ELSE 28)
  ELSE IF m \in {4, 6, 9, 11} THEN 30 ELSE 31

\* pd.to_datetime(..., errors="coerce") on one cell: an ISO date text
\* YYYY-MM-DD of a real day gives its timestamp; a missing cell or any other
\* text of the model gives NaT.
to_datetime(cell) ==
  IF cell.t # "str" THEN Null
  ELSE LET s == cell.s
       IN  IF /\ Len(s) = 10
              /\ s[5] = "-" /\ s[8] = "-"
              /\ \A i \in {1, 2, 3, 4, 6, 7, 9, 10} : IsDigit(s[i])
           THEN LET y == DigitsValue(SubSeq(s, 1, 4))
                    m == DigitsValue(SubSeq(s, 6, 7))
                    d == DigitsValue(SubSeq(s, 9, 10))
                IN  IF m \in 1..12 /\ d \in 1..DaysInMonth(y, m)
                    THEN Ts(y, m, d) ELSE Null
           ELSE Null

\* ------------------------------------------------------------- get_role_map
\* Text constants of the catalog and of the override.
TownText == << "T","o","w","n" >>
DemonText == << "D","e","m","o","n" >>
GoodText == << "G","o","o","d" >>
EvilText == << "E","v","i","l" >>
NoneText == << "N","o","n","e" >>

\* app/roles.csv as read_csv returns it: rows of (role, category, team).
\* Role names are written in the file with capitals and stray blanks.
RolesCsv ==
  << [role |-> << " ","M","a","y","o","r"," " >>, category |-> TownText, team |-> GoodText],
     [role |-> << "I","m","p" >>, category |-> DemonText, team |-> EvilText] >>

\* The outcomes of reading app/roles.csv: its rows, or Null when the read
\* raises.
RolesCsvRead == [t |-> "csv", rows |-> RolesCsv]
RolesCsvMissing == Null

\* .assign(role = df["role"].str.strip().str.lower())
CatalogKey(role) == Lower(Strip(role))

\* get_role_map(): the table indexed by the normalised role; the empty table
\* with columns category and team when loading raises.
get_role_map(csv) ==
  IF csv.t # "csv" THEN {}
  ELSE { [role |-> CatalogKey(csv.rows[i].role),
          category |-> csv.rows[i].category,
          team |-> csv.rows[i].team] : i \in 1..Len(csv.rows) }

\* df["role_clean"].map(ROLE_MAP[col]): the column's value at the index label
\* equal to the role, as given; NaN when no label equals it.
MapRole(role_map, col, role) ==
  IF role.t = "str" /\ \E e \in role_map : e.role = role.s
  THEN Str((CHOOSE e \in role_map : e.role = role.s)[col])
  ELSE Null

\* ------------------------------------------------------ EVIL_OVERRIDE_NOTES
EVIL_OVERRIDE_NOTES ==
  { << "t","u","r","n","e","d"," ","e","v","i","l" >>,
    << "e","v","i","l" >>,
    << "e","v","i","l"," ","t","e","a","m" >> }

\* -------------------------------------------------------------- sheet_to_df
\* Columns passed to pd.DataFrame(rows, columns=[...]).
FrameColumns == << "date", "role", "win", "winrate" >>

\* The width pandas gives a frame built from a list of rows: the longest row.
FrameWidth(rows) ==
  IF rows = <<>> THEN 0
  ELSE LET lens == { Len(rows[i]) : i \in 1..Len(rows) }
       IN  CHOOSE n \in lens : \A k \in lens : k <= n

\* Cell j of a row after pandas pads short rows with None.
CellAt(row, j) == IF j <= Len(row) THEN Str(row[j]) ELSE Null

\* dropna(subset=["role", "win"]): the row stays when neither is missing.
NotDropped(r) == r.role # Null /\ r.win # Null

\* sheet_to_df without rows = values[1:]: the first row is read as data.
sheet_to_df_keeps_first_row(values) ==
  IF Len(values) < 2 THEN [raised |-> FALSE, rows |-> <<>>]
  ELSE IF FrameWidth(values) # Len(FrameColumns)
       THEN [raised |-> TRUE, rows |-> <<>>]
       ELSE LET typed == [i \in 1..Len(values) |->
                            [index |-> i - 1,
                             date |-> to_datetime(CellAt(values[i], 1)),
                             role |-> CellAt(values[i], 2),
                             win |-> to_numeric(CellAt(values[i], 3))]]
            IN  [raised |-> FALSE, rows |-> SelectSeq(typed, NotDropped)]

\* sheet_to_df(values): raised is TRUE when pd.DataFrame rejects the rows
\* (their width is not the number of columns passed); rows are the frame's
\* rows, each with its index label.
sheet_to_df(values) ==
  IF Len(values) < 2 THEN [raised |-> FALSE, rows |-> <<>>]
  ELSE LET rows == Tail(values)
       IN  IF FrameWidth(rows) # Len(FrameColumns)
           THEN [raised |-> TRUE, rows |-> <<>>]
           ELSE LET typed == [i \in 1..Len(rows) |->
                                [index |-> i - 1,
                                 date |-> to_datetime(CellAt(rows[i], 1)),
                                 role |-> CellAt(rows[i], 2),
                                 win |-> to_numeric(CellAt(rows[i], 3))]]
                IN  [raised |-> FALSE, rows |-> SelectSeq(typed, NotDropped)]

\* ------------------------------------------- get_all_sheets: one sheet's body
\* .astype(str) on the note column: None becomes the text "None".
astype_str(v) == IF v.t = "str" THEN v.s ELSE NoneText

\* df["role_note"].astype(str).str.lower().str.strip()
NoteNorm(note) == Strip(Lower(astype_str(note)))

\* Classify with the override written before the catalog lookup, which then
\* overwrites it.
Classify_override_lost(r, role_map) ==
  LET parsed == parse_role(r.role)
  IN  [index |-> r.index,
       date |-> r.date,
       role |-> r.role,
       win |-> r.win,
       role_clean |-> parsed[1],
       role_note |-> parsed[2],
       role_note_norm |-> Str(NoteNorm(parsed[2])),
       category |-> MapRole(role_map, "category", parsed[1]),
       team |-> MapRole(role_map, "team", parsed[1])]

\* The columns added to one row of df: role_clean, role_note, role_note_norm,
\* category, team (with the override applied to team).
Classify(r, role_map) ==
  LET parsed == parse_role(r.role)
      role_clean == parsed[1]
      role_note == parsed[2]
      norm == NoteNorm(role_note)
      team == MapRole(role_map, "team", role_clean)
  IN  [index |-> r.index,
       date |-> r.date,
       role |-> r.role,
       win |-> r.win,
       role_clean |-> role_clean,
       role_note |-> role_note,
       role_note_norm |-> Str(norm),
       category |-> MapRole(role_map, "category", role_clean),
       team |-> IF norm \in EVIL_OVERRIDE_NOTES THEN Str(EvilText) ELSE team]

RECURSIVE SumWin(_)
SumWin(rows) ==
  IF rows = <<>> THEN 0 ELSE Head(rows).win.n + SumWin(Tail(rows))

\* round(num / den, 3) in Scale-ths, num being a sum of Scale-ths: the nearest
\* integer, ties to the even one.
RoundMean(num, den) ==
  LET q == num \div den
      r == num % den
  IN  IF 2 * r < den THEN q
      ELSE IF 2 * r > den THEN q + 1
      ELSE IF q % 2 = 0 THEN q ELSE q + 1

\* df.groupby(col)["win"].agg(games="count", winrate="mean"): one group per
\* key present in the column; groupby leaves rows with a missing key out.
\* winrate is the exact mean, num / den.
GroupBy(rows, col) ==
  LET keys == { rows[i][col] : i \in 1..Len(rows) } \ { Null }
      members(k) == SelectSeq(rows, LAMBDA r : r[col] = k)
  IN  { [key |-> k,
         games |-> Len(members(k)),
         winrate |-> [num |-> SumWin(members(k)), den |-> Scale * Len(members(k))]]
        : k \in keys }

\* df.fillna("") on one value.
FillNa(v) == IF v = Null THEN Str(<< >>) ELSE v

\* One record of df.fillna("").to_dict(orient="records"): every column of df,
\* without the index.
ToDictRecord(r) ==
  [date |-> FillNa(r.date),
   role |-> FillNa(r.role),
   win |-> FillNa(r.win),
   role_clean |-> FillNa(r.role_clean),
   role_note |-> FillNa(r.role_note),
   role_note_norm |-> FillNa(r.role_note_norm),
   category |-> FillNa(r.category),
   team |-> FillNa(r.team)]

\* all_data[title] = [] of the except branch.
Placeholder == [t |-> "list", items |-> << >>]

\* The loop's local variables before the first pass.
NoLocals ==
  [df |-> << >>, games_played |-> 0, overall_winrate |-> 0,
   by_role |-> {}, by_team |-> {}, by_category |-> {}]

\* The try body of the loop on the fetched values: whether it raised, the
\* local variables after it, and the entry it builds.  prev holds the locals
\* before the pass: an assignment that is not reached leaves its variable as
\* it was.
SheetBody(values, role_map, prev) ==
  LET frame == sheet_to_df(values)
  IN  IF frame.raised
      THEN [raised |-> TRUE, locals |-> prev, entry |-> Placeholder]
      ELSE LET games_played == Len(frame.rows)
               overall_winrate ==
                 IF games_played > 0
                 THEN RoundMean(SumWin(frame.rows), games_played) ELSE 0
           IN  \* df[["role_clean", "role_note"]] = df["role"].apply(...): apply
               \* on an empty column gives an empty Series, and assigning it
               \* to the two columns raises ValueError.
               IF games_played = 0
               THEN [raised |-> TRUE,
                     locals |-> [prev EXCEPT !.df = << >>,
                                             !.games_played = 0,
                                             !.overall_winrate = 0],
                     entry |-> Placeholder]
               ELSE LET df == [i \in 1..games_played |->
                                 Classify(frame.rows[i], role_map)]
                    IN  [raised |-> FALSE,
                         locals |->
                           [df |-> df,
                            games_played |-> games_played,
                            overall_winrate |-> overall_winrate,
                            by_role |-> GroupBy(df, "role_clean"),
                            by_team |-> GroupBy(df, "team"),
                            by_category |-> GroupBy(df, "category")],
                         entry |->
                           [t |-> "report",
                            summary |-> [games_played |-> games_played,
                                         overall_winrate |-> overall_winrate],
                            log |-> [i \in 1..games_played |->
                                       ToDictRecord(df[i])]]]

\* all_data[title] = entry on an insertion-ordered dict.
DictSet(d, title, entry) ==
  IF \E i \in 1..Len(d) : d[i].title = title
  THEN [i \in 1..Len(d) |->
          IF d[i].title = title THEN [title |-> title, entry |-> entry] ELSE d[i]]
  ELSE Append(d, [title |-> title, entry |-> entry])

\* ------------------------------------------------- the spreadsheet's content
Day1 == << "2","0","2","4","-","0","1","-","0","1" >>
Day2 == << "2","0","2","4","-","0","1","-","0","2" >>
NoDay == << "n","/","a" >>
Pct == << "5","0","%" >>

\* A header row, and a first row that looks like a data row.
HeaderRows ==
  { << << "D","a","t","e" >>, << "R","o","l","e" >>, << "W","i","n" >>, << "W","i","n","r","a","t","e" >> >>,
    << Day1, << "m","a","y","o","r" >>, << "1" >>, Pct >> }

\* Data rows as the Sheets API returns them: cells are texts, trailing blank
\* cells are cut off.
DataRows ==
  { << Day2, << "m","a","y","o","r"," ","(","d","r","u","n","k",")" >>, << "0",".","0" >>, Pct >>,
    << Day1, << "m","a","y","o","r"," ","("," ","E","v","i","l",")" >>, << "1" >>, Pct >>,
    << NoDay, << "I","m","p" >>, << "0" >>, Pct >>,
    << Day1, << >>, << "1" >>, Pct >>,
    << Day2, << " ","m","a","y","o","r"," " >>, << "2" >>, Pct >>,
    << Day1, << "m","a","y","o","r" >>, << "x" >>, Pct >>,
    << Day1 >>,
    << Day2, << "z","e","d" >>, << "1" >> >> }

\* What fetch_sheet can return with n data rows: a first row followed by n
\* data rows.
SheetValues(n) ==
  { << h >> \o rs : h \in HeaderRows, rs \in [1..n -> DataRows] }

\* The data rows of fetched values.
DataRowCount(values) == IF values = << >> THEN 0 ELSE Len(values) - 1

\* Titles of the spreadsheet's sheets, in the order of its listing.
TitlePool == << "Mia", "Ben", "Zoe", "Ann", "Kim" >>

\* --------------------------------------------------------------------- state
VARIABLES
  ROLE_MAP,    \* the module-level catalog, get_role_map()'s result
  pc,          \* where the request is: "start", "loop", "returned", "raised"
  metadata,    \* what the metadata call of the request gave
  sheet_info,  \* the listing built from the metadata
  fetched,     \* what fetch_sheet gave for each sheet of the loop so far
  all_data,    \* the insertion-ordered dict of the handler
  locals,      \* the local variables of the loop body
  response     \* what the caller of GET /sheets receives

vars == << ROLE_MAP, pc, metadata, sheet_info, fetched, all_data, locals, response >>

NoResponse == [t |-> "none"]
ErrorResponse == [t |-> "error"]

\* Data rows fetched so far in the request.
RECURSIVE RowsFetched(_)
RowsFetched(f) ==
  IF f = << >> THEN 0
  ELSE DataRowCount(Head(f).values) + RowsFetched(Tail(f))

\* The process after start-up, before its first request.
Started(csv) ==
  /\ ROLE_MAP = get_role_map(csv)
  /\ pc = "start"
  /\ metadata = Null
  /\ sheet_info = << >>
  /\ fetched = << >>
  /\ all_data = << >>
  /\ locals = NoLocals
  /\ response = NoResponse

\* Start-up with app/roles.csv in place.
Init == Started(RolesCsvRead)

\* Start-up when app/roles.csv cannot be read: the catalog is empty.
InitDegraded == Started(RolesCsvMissing)

\* MetadataFails with the exception swallowed: an empty mapping is returned.
MetadataFails_swallowed ==
  /\ pc = "start"
  /\ metadata' = [t |-> "error"]
  /\ pc' = "returned"
  /\ response' = [t |-> "dict", items |-> all_data]
  /\ UNCHANGED << ROLE_MAP, sheet_info, fetched, all_data, locals >>

\* service.spreadsheets().get(...).execute() raises: the handler logs and
\* re-raises, twice, and the request ends with the exception.
MetadataFails ==
  /\ pc = "start"
  /\ metadata' = [t |-> "error"]
  /\ pc' = "raised"
  /\ response' = ErrorResponse
  /\ UNCHANGED << ROLE_MAP, sheet_info, fetched, all_data, locals >>

\* The metadata lists n sheets; sheet_info keeps their titles and ids in the
\* order of the listing, and all_data starts empty.
MetadataListed(n) ==
  /\ pc = "start"
  /\ metadata' = [t |-> "sheets", titles |-> SubSeq(TitlePool, 1, n)]
  /\ pc' = "loop"
  /\ sheet_info' = [i \in 1..n |-> [title |-> TitlePool[i], sheetId |-> i]]
  /\ all_data' = << >>
  /\ UNCHANGED << ROLE_MAP, fetched, locals, response >>

\* SheetFetchFails with an except branch that starts all_data over.
SheetFetchFails_wipes ==
  /\ pc = "loop"
  /\ Len(fetched) < Len(sheet_info)
  /\ LET sheet == sheet_info[Len(fetched) + 1]
     IN  /\ fetched' = Append(fetched, [ok |-> FALSE, values |-> << >>])
         /\ all_data' = DictSet(<< >>, sheet.title, Placeholder)
  /\ UNCHANGED << ROLE_MAP, pc, metadata, sheet_info, locals, response >>

\* One pass of the loop in which fetch_sheet raises: the except branch
\* stores the placeholder under the sheet's title.
SheetFetchFails ==
  /\ pc = "loop"
  /\ Len(fetched) < Len(sheet_info)
  /\ LET sheet == sheet_info[Len(fetched) + 1]
     IN  /\ fetched' = Append(fetched, [ok |-> FALSE, values |-> << >>])
         /\ all_data' = DictSet(all_data, sheet.title, Placeholder)
  /\ UNCHANGED << ROLE_MAP, pc, metadata, sheet_info, locals, response >>

\* One pass of the loop in which fetch_sheet returns values: the try body
\* runs on them, and the except branch stores the placeholder if it raises.
SheetFetched(values) ==
  /\ pc = "loop"
  /\ Len(fetched) < Len(sheet_info)
  /\ RowsFetched(fetched) + DataRowCount(values) <= MaxRows
  /\ LET sheet == sheet_info[Len(fetched) + 1]
         body == SheetBody(values, ROLE_MAP, locals)
     IN  /\ fetched' = Append(fetched, [ok |-> TRUE, values |-> values])
         /\ locals' = body.locals
         /\ all_data' = DictSet(all_data, sheet.title,
                                IF body.raised THEN Placeholder ELSE body.entry)
  /\ UNCHANGED << ROLE_MAP, pc, metadata, sheet_info, response >>

\* The loop is over: return all_data.
Return ==
  /\ pc = "loop"
  /\ Len(fetched) = Len(sheet_info)
  /\ pc' = "returned"
  /\ response' = [t |-> "dict", items |-> all_data]
  /\ UNCHANGED << ROLE_MAP, metadata, sheet_info, fetched, all_data, locals >>

\* The next GET /sheets: nothing of the previous request is kept but the
\* catalog.
NextRequest ==
  /\ pc \in { "returned", "raised" }
  /\ pc' = "start"
  /\ metadata' = Null
  /\ sheet_info' = << >>
  /\ fetched' = << >>
  /\ all_data' = << >>
  /\ locals' = NoLocals
  /\ response' = NoResponse
  /\ UNCHANGED ROLE_MAP

Next ==
  \/ MetadataFails
  \/ \E n \in 0..MaxSheets : MetadataListed(n)
  \/ SheetFetchFails
  \/ SheetFetched(<< >>)
  \/ \E n \in 0..(MaxRows - RowsFetched(fetched)) :
        \E values \in SheetValues(n) : SheetFetched(values)
  \/ Return
  \/ NextRequest

Spec == Init /\ [][Next]_vars

SpecDegraded == InitDegraded /\ [][Next]_vars

\* ---------------------------------------------------------------- properties
\* The sheets of the request that have an entry, and those whose entry is a
\* report.  Entry k of all_data belongs to sheet k of the listing, whose
\* fetch is fetched[k].
Entered == 1..Len(all_data)
Reports == { k \in Entered : all_data[k].entry.t = "report" }
LogOf(k) == all_data[k].entry.log
SummaryOf(k) == all_data[k].entry.summary
ValuesOf(k) == fetched[k].values

\* The last pass of the loop built a report: locals are that pass's.
LastPassBuilt ==
  /\ all_data # << >>
  /\ Len(all_data) = Len(fetched)
  /\ Len(all_data) \in Reports

\* A raw row has a role cell; its win text reads as a number; its date text
\* reads as a date.
HasRoleCell(row) == Len(row) >= 2
WinIsNumber(row) == Len(row) >= 3 /\ to_numeric(Str(row[3])) # Null
DateIsDate(row) == Len(row) >= 1 /\ to_datetime(Str(row[1])) # Null

\* The positions in values, in increasing order, of the rows after the first
\* that satisfy Keep.
RowsAfterFirst(values, Keep(_)) ==
  IF Len(values) < 2 THEN << >>
  ELSE SelectSeq([i \in 1..(Len(values) - 1) |-> i + 1],
                 LAMBDA i : Keep(values[i]))

\* The rows that survive row dropping: role cell present, win a number.
Survives(row) == HasRoleCell(row) /\ WinIsNumber(row)
SurvivingRows(values) == RowsAfterFirst(values, Survives)

\* The rows the drop rule of the specification keeps: win a number and the
\* parsed role neither null nor empty.
RuleKeeps(row) ==
  /\ WinIsNumber(row)
  /\ HasRoleCell(row)
  /\ parse_role(Str(row[2]))[1] \notin { Null, Str(<< >>) }
RuleKeptRows(values) == RowsAfterFirst(values, RuleKeeps)

\* The role label's note, lower-cased and trimmed, is an override note.
IsOverrideLabel(label) ==
  LET note == parse_role(Str(label))[2]
  IN  note # Null /\ Lower(Strip(note.s)) \in EVIL_OVERRIDE_NOTES

\* The team of a record with this role label: "Evil" under the override,
\* else the team the catalog holds under the parsed role, else missing.
TeamFor(label, missing) ==
  LET role == parse_role(Str(label))[1]
  IN  IF IsOverrideLabel(label) THEN Str(EvilText)
      ELSE IF \E e \in ROLE_MAP : e.role = role.s
           THEN Str((CHOOSE e \in ROLE_MAP : e.role = role.s).team)
           ELSE missing

RECURSIVE SumGames(_)
SumGames(groups) ==
  IF groups = {} THEN 0
  ELSE LET g == CHOOSE x \in groups : TRUE
       IN  g.games + SumGames(groups \ { g })

C2_DropRule ==
  \A k \in Reports :
    LET idx == RuleKeptRows(ValuesOf(k))
    IN  /\ Len(LogOf(k)) = Len(idx)
        /\ SummaryOf(k).games_played = Len(idx)
        /\ \A j \in 1..Len(idx) :
             /\ LogOf(k)[j].role = Str(ValuesOf(k)[idx[j]][2])
             /\ ~DateIsDate(ValuesOf(k)[idx[j]]) => LogOf(k)[j].date.t # "ts"

C4_WinIsFlag ==
  \A k \in Reports :
    \A j \in 1..Len(LogOf(k)) : LogOf(k)[j].win \in { Num(0), Num(Scale) }

\* C5 (as claimed): a fetched sheet with no kept row has a report with
\* games_played 0 and overall_winrate 0; every report has games_played equal
\* to the number N of kept rows and to the length of its log, and
\* overall_winrate equal to W/N rounded to three decimals, W being the number
\* of kept rows whose win is 1.
C5_Summary ==
  \A k \in Entered :
    LET idx == SurvivingRows(ValuesOf(k))
        N == Len(idx)
        W == Len(SelectSeq(idx, LAMBDA i :
                   to_numeric(Str(ValuesOf(k)[i][3])) = Num(Scale)))
    IN  /\ fetched[k].ok /\ N = 0 =>
             /\ k \in Reports
             /\ SummaryOf(k) = [games_played |-> 0, overall_winrate |-> 0]
        /\ k \in Reports /\ N > 0 =>
             /\ SummaryOf(k).games_played = N
             /\ Len(LogOf(k)) = N
             /\ SummaryOf(k).overall_winrate = RoundMean(Scale * W, N)

\* C6 (as claimed): a returned record whose parsed role, trimmed and
\* lower-cased, is a key of the catalog has that key's category, and that
\* key's team unless the override applies.
C6_LookupNormalised ==
  \A k \in Reports :
    \A j \in 1..Len(LogOf(k)) :
      \A e \in ROLE_MAP :
        CatalogKey(LogOf(k)[j].role_clean.s) = e.role =>
          /\ LogOf(k)[j].category = Str(e.category)
          /\ \/ LogOf(k)[j].team = Str(e.team)
             \/ IsOverrideLabel(LogOf(k)[j].role.s)

\* C7 (as claimed): the role field of every returned record is the base
\* label of its row: the label without its trailing parenthetical, trimmed.
C7_RoleIsBaseLabel ==
  \A k \in Reports :
    LET idx == SurvivingRows(ValuesOf(k))
    IN  \A j \in 1..Len(LogOf(k)) :
          LogOf(k)[j].role = parse_role(Str(ValuesOf(k)[idx[j]][2]))[1]

\* C8: when the metadata call raises, the request ends with the error: no
\* sheet is fetched, nothing is put in all_data and no mapping is returned.
C8_MetadataFailureFailsRequest ==
  /\ metadata.t = "error" =>
       /\ pc = "raised"
       /\ response = ErrorResponse
       /\ fetched = << >>
       /\ all_data = << >>
  /\ response.t = "dict" => metadata.t = "sheets"

\* C8 witness: a request whose metadata call raised.
C8_Witness == metadata.t = "error" /\ pc = "raised"

\* C9 (as claimed): the games of the by_team groups, of the by_category
\* groups and of the by_role groups each add up to the number of kept
\* records.
C9_GroupsCoverRecords ==
  LastPassBuilt =>
    /\ SumGames(locals.by_role) = Len(locals.df)
    /\ SumGames(locals.by_team) = Len(locals.df)
    /\ SumGames(locals.by_category) = Len(locals.df)

\* C10: the log of every report is the surviving rows among the rows after
\* the first (role cell present, win a number), one record per row and in
\* row order, the first row never among them; the entries of all_data, and
\* of the response, follow the order of the listing.
C10_LogFollowsRows ==
  /\ \A k \in Reports :
       LET idx == SurvivingRows(ValuesOf(k))
       IN  /\ Len(LogOf(k)) = Len(idx)
           /\ SummaryOf(k).games_played = Len(idx)
           /\ \A j \in 1..Len(idx) :
                /\ idx[j] >= 2
                /\ LogOf(k)[j].role = Str(ValuesOf(k)[idx[j]][2])
                /\ LogOf(k)[j].win = to_numeric(Str(ValuesOf(k)[idx[j]][3]))
                /\ LogOf(k)[j].date = FillNa(to_datetime(Str(ValuesOf(k)[idx[j]][1])))
  /\ \A k \in Entered : all_data[k].title = metadata.titles[k]
  /\ pc = "returned" =>
       /\ Len(response.items) = Len(metadata.titles)
       /\ \A k \in 1..Len(response.items) :
            response.items[k].title = metadata.titles[k]

\* C10 witness: a returned report whose sheet has a first row that reads as a
\* data row, and whose log holds two different records.
C10_Witness ==
  /\ pc = "returned"
  /\ \E k \in Reports :
       /\ Survives(ValuesOf(k)[1])
       /\ Len(LogOf(k)) = 2
       /\ LogOf(k)[1] # LogOf(k)[2]

====
